---- MODULE Spec2Model ----
(***************************************************************************)
(* One call session of the fixly voice pipeline: the websocket endpoints   *)
(* of src/backend/app.py and src/phone-service/app.py, EventEmitter,       *)
(* GptService, TextToSpeechService and StreamService (the playback         *)
(* sequencer).                                                             *)
(*                                                                         *)
(* Specifications over the same variables:                                 *)
(*   SpecBuffer   one StreamService object driven through its methods      *)
(*                set_stream_sid and buffer with any index and audio;      *)
(*   Spec         the backend's session while every language-model         *)
(*                request is answered: start event, completions            *)
(*                dispatching chunks, synthesis, handle_speech, interim    *)
(*                transcripts;                                             *)
(*   SpecLive     Spec with the fairness the event loop gives its tasks;   *)
(*   SpecGpt      GptService and handle_transcription with requests that   *)
(*                may fail, and the fallback threads of emit;              *)
(*   SpecSession  the inbound messages of both apps and the disconnect,    *)
(*                with the pipeline behind them;                           *)
(*   SpecMessages the read loop of both apps with every kind of inbound    *)
(*                message, and the ways the loop ends;                     *)
(*   SpecStt      one TranscriptionService object driven through its       *)
(*                Transcript callback;                                     *)
(*   SpecThreads  buffer() called from two threads, one attribute access   *)
(*                at a step.                                               *)
(***************************************************************************)
EXTENDS Integers, Sequences, FiniteSets, TLC

\* ---------------------------------------------------------------- bounds
MaxIndex == 3        \* sequence numbers range over 0..MaxIndex
MaxCalls == 5        \* buffer() calls of one behaviour of SpecBuffer
MaxChunks == 2       \* chunks the completions of one behaviour dispatch
MaxTurns == 2        \* final transcripts of one behaviour
MaxUtterances == 1   \* interim transcripts of one behaviour
MaxMedia == 1        \* inbound media events of one behaviour
MaxPieces == 3       \* finalized transcript pieces of one behaviour
MaxEnds == 2         \* 'transcription' events emitted on an UtteranceEnd

\* ------------------------------------------------------ program constants
None == -1                 \* Python None as a chunk index (the welcome message)
InterruptThreshold == 5    \* len(text) > 5 in handle_utterance

NoSid == ""                \* StreamService.stream_sid after __init__: falsy
NoneSid == "None"          \* conn['stream_sid'] after websocket_endpoint: None
StreamSids == {"MZ1"}
TextLens == {0, 5, 6}      \* lengths of interim transcripts
Apps == {"backend", "phone-service"}   \* src/backend/app.py, src/phone-service/app.py
Outcomes == {"ok", "error", "raise"}   \* requests.post: 200, another status, exception
MarkNames == {1}           \* mark names of inbound mark events
MediaPayloads == {0, 1}    \* inbound media payload: empty, non-empty
Threads == {"loop", "thread"}   \* an event-loop thread and a fallback thread of emit
WelcomeText == 1           \* length of the welcome message: not empty
Texts == {0, 1}            \* length of a chunk's text: empty, not empty

Indexes == 0..MaxIndex
IndexArgs == Indexes \cup {None}

VARIABLES
    stream_sid,            \* StreamService.stream_sid
    expected_audio_index,  \* StreamService.expected_audio_index
    audio_buffer,          \* StreamService.audio_buffer: index -> audio
    coroutines,            \* audio of every send_audio(...) coroutine object
                           \* buffer() created; none is ever awaited
    ws_out,                \* frames written to the websocket (send_text)
    marks,                 \* conn['marks']
    conn_stream_sid,       \* conn['stream_sid']
    partial_response_index,\* GptService.partial_response_index
    interaction_count,     \* conn['interaction_count']
    active,                \* running completion() calls: their interaction_count argument
    inflight,              \* chunks handed to TextToSpeechService.generate whose
                           \* handle_speech has not run yet
    starts,                \* inbound start events handled so far
    calls,                 \* history: every buffer() call, in order
    utterances,            \* history: length of every interim transcript handled
    app,                   \* which app.py runs the session
    user_context,          \* GptService.user_context
    dispatched,            \* history: every 'gptreply' event completion() emitted
    replies,               \* 'gptreply' events whose handle_gpt_reply has not run yet
    synth,                 \* history: every call of TextToSpeechService.generate
    finished,              \* history: every completion() call that has ended
    ntrans,                \* final transcripts handled so far
    overlapped,            \* history: two completion() calls have run at the same time
    registered,            \* client_id in connections
    stop_seen,             \* history: an inbound stop event was handled
    forwarded,             \* payloads given to TranscriptionService.send
    last_msg,              \* history: the last inbound message handled
    pc,                    \* SpecThreads: where each thread is inside buffer()
    targ,                  \* SpecThreads: the arguments of each thread's buffer() call
    tmp,                   \* SpecThreads: each thread's value read of expected_audio_index
                           \* and its local buffered_audio
    final_result,          \* TranscriptionService.final_result: the pieces collected
    speech_final,          \* TranscriptionService.speech_final
    transcriptions,        \* history: the text of every 'transcription' event emitted
    npieces,               \* history: finalized pieces received so far
    nends,                 \* history: 'transcription' events emitted on an UtteranceEnd
    ended,                 \* the read loop of websocket_endpoint has ended
    unhandled              \* exceptions raised out of a listener that ran as a task

bufvars == <<stream_sid, expected_audio_index, audio_buffer, coroutines>>
outvars == <<ws_out, marks>>
appvars == <<conn_stream_sid, partial_response_index, interaction_count, active,
             inflight, starts, replies, synth>>
gptvars == <<user_context, dispatched, finished, ntrans, overlapped>>
connvars == <<app, registered, stop_seen, forwarded, last_msg>>
thrvars == <<pc, targ, tmp>>
sttvars == <<final_result, speech_final, transcriptions, npieces, nends>>
vars == <<stream_sid, expected_audio_index, audio_buffer, coroutines, ws_out, marks,
          conn_stream_sid, partial_response_index, interaction_count, active,
          inflight, starts, calls, utterances, app, user_context, dispatched,
          replies, synth, finished, ntrans, overlapped, registered, stop_seen,
          forwarded, last_msg,
          pc, targ, tmp, final_result, speech_final, transcriptions, npieces,
          nends, ended, unhandled>>

\* ------------------------------------------------------------ StreamService

\* The frames send_audio writes when its coroutine is run: a media frame, then
\* a mark frame with a fresh label. No caller in the program awaits it.
MediaFrame(sid, audio) ==
    [streamSid |-> sid, event |-> "media", payload |-> audio, name |-> 0]

MarkFrame(sid, label) ==
    [streamSid |-> sid, event |-> "mark", payload |-> 0, name |-> label]

ClearFrame(sid) ==
    [streamSid |-> sid, event |-> "clear", payload |-> 0, name |-> 0]

\* if not self.stream_sid: '' and None are both false
Bound(sid) == sid \notin {NoSid, NoneSid}

SendAudioBody(sid, audio, label) ==
    IF ~Bound(sid) THEN <<>>
    ELSE <<MediaFrame(sid, audio), MarkFrame(sid, label)>>

\* buffer() is a plain def and send_audio an async def: the call
\* self.send_audio(audio) only builds a coroutine object and drops it.
\* The result is the list of coroutine objects built so far.
send_audio(cs, audio) == Append(cs, audio)

\* a sequencer that also treats a chunk below expected_audio_index as the
\* next one
IsExpected_OrBelow(index, expected) == index <= expected

\* elif index == self.expected_audio_index
IsExpected(index, expected) == index = expected

\* while self.expected_audio_index in self.audio_buffer: ... += 1
\* the value of expected_audio_index when the loop ends, started at e.
RECURSIVE DrainEnd(_, _)
DrainEnd(e, buf) ==
    IF e \in DOMAIN buf THEN DrainEnd(e + 1, buf) ELSE e

\* the coroutine objects the loop builds, in order, for e .. last - 1
RECURSIVE DrainSend(_, _, _, _)
DrainSend(cs, e, last, buf) ==
    IF e >= last THEN cs
    ELSE DrainSend(send_audio(cs, buf[e]), e + 1, last, buf)

\* a sequencer that forgets a chunk that is not the expected one
Store_Drop(buf, index, audio) == buf

\* self.audio_buffer[index] = audio
Store(buf, index, audio) ==
    [i \in DOMAIN buf \cup {index} |-> IF i = index THEN audio ELSE buf[i]]

\* StreamService.buffer(index, audio); the audio of the n-th call is n.
buffer(index, audio) ==
    /\ calls' = Append(calls, [index |-> index, audio |-> audio,
                               expected |-> expected_audio_index,
                               bound |-> Bound(stream_sid)])
    /\ IF index = None
         THEN /\ coroutines' = send_audio(coroutines, audio)
              /\ UNCHANGED <<expected_audio_index, audio_buffer>>
         ELSE IF IsExpected(index, expected_audio_index)
           THEN LET last == DrainEnd(expected_audio_index + 1, audio_buffer)
                IN /\ coroutines' = DrainSend(send_audio(coroutines, audio),
                                              expected_audio_index + 1, last,
                                              audio_buffer)
                   /\ expected_audio_index' = last
                   /\ UNCHANGED audio_buffer
           ELSE /\ audio_buffer' = Store(audio_buffer, index, audio)
                /\ UNCHANGED <<expected_audio_index, coroutines>>
    /\ UNCHANGED <<stream_sid, ws_out, marks>>

\* StreamService.set_stream_sid
set_stream_sid(sid) == stream_sid' = sid

\* ------------------------------------------------------------- GptService

\* one element of user_context. call is the completion() call that appended
\* it (0: none); content is 0 for the system prompt and the welcome message,
\* 1 for the callSid line, the transcript's number for a user turn and the
\* length of complete_response for an assistant turn.
Turn(role, call, content) == [role |-> role, call |-> call, content |-> content]

\* GptService.__init__: the system prompt and the welcome message
InitialContext == <<Turn("system", 0, 0), Turn("assistant", 0, 0)>>

\* GptService.set_call_sid
set_call_sid(ctx) == Append(ctx, Turn("system", 0, 1))

\* a history that puts the new turn in front
update_user_context_Front(ctx, role, call, content) ==
    <<Turn(role, call, content)>> \o ctx

\* GptService.update_user_context
update_user_context(ctx, role, call, content) ==
    Append(ctx, Turn(role, call, content))

\* an inbound message: its event and, for a mark, the mark name, for a media
\* event, the payload; n is the number of messages handled, modulo 2, which
\* tells a message from an equal one before it
Msg(kind, name, n) == [kind |-> kind, name |-> name, n |-> n]

\* ------------------------------------------------- SpecBuffer: the object

Init ==
    /\ stream_sid = NoSid
    /\ expected_audio_index = 0
    /\ audio_buffer = << >>
    /\ coroutines = << >>
    /\ ws_out = << >>
    /\ marks = << >>
    /\ conn_stream_sid = NoneSid
    /\ partial_response_index = 0
    /\ interaction_count = 0
    /\ active = << >>
    /\ inflight = << >>
    /\ starts = 0
    /\ calls = << >>
    /\ utterances = << >>
    /\ app \in Apps
    /\ user_context = InitialContext
    /\ dispatched = << >>
    /\ replies = << >>
    /\ synth = << >>
    /\ finished = << >>
    /\ ntrans = 0
    /\ overlapped = FALSE
    /\ registered = TRUE
    /\ stop_seen = FALSE
    /\ forwarded = 0
    /\ last_msg = Msg("none", 0, 0)
    /\ pc = [t \in Threads |-> "idle"]
    /\ targ = [t \in Threads |-> [index |-> None, audio |-> 0]]
    /\ tmp = [t \in Threads |-> [expected |-> 0, buffered_audio |-> 0]]
    /\ final_result = << >>
    /\ speech_final = FALSE
    /\ transcriptions = << >>
    /\ npieces = 0
    /\ nends = 0
    /\ ended = FALSE
    /\ unhandled = {}

SetStreamSid ==
    \E sid \in StreamSids :
        /\ stream_sid # sid
        /\ set_stream_sid(sid)
        /\ UNCHANGED <<sttvars, ended, unhandled,
                       expected_audio_index, audio_buffer, coroutines, outvars,
                       appvars, calls, utterances, gptvars, connvars, thrvars>>

Buffer ==
    \E index \in IndexArgs :
        /\ Len(calls) < MaxCalls
        /\ buffer(index, Len(calls) + 1)
        /\ UNCHANGED <<sttvars, ended, unhandled,
                       appvars, utterances, gptvars, connvars, thrvars>>

NextBuffer == SetStreamSid \/ Buffer

SpecBuffer == Init /\ [][NextBuffer]_vars

\* ------------------------------------------------------ Spec: the session

\* an interruption test that forgets the outstanding marks
ShouldInterrupt_NoMarks(ms, len) == len # 0 /\ len > InterruptThreshold

\* handle_utterance: if conn['marks'] and text and len(text) > 5
ShouldInterrupt(ms, len) == ms # << >> /\ len # 0 /\ len > InterruptThreshold

\* handle_utterance(text): the listener of the transcription service's
\* 'utterance' event; text is given by its length.
handle_utterance(len) ==
    /\ utterances' = Append(utterances, len)
    /\ IF ShouldInterrupt(marks, len)
         THEN ws_out' = Append(ws_out, ClearFrame(conn_stream_sid))
         ELSE UNCHANGED ws_out
    /\ UNCHANGED <<sttvars, ended, unhandled,
                   bufvars, marks, appvars, calls, gptvars, connvars, thrvars>>

\* a dispatcher that posts a chunk to the synthesis service whatever its text
Posts_Always(text) == TRUE

\* generate: if not partial_response: return; otherwise requests.post is called
Posts(text) == text # 0

\* generate emits 'speech' when the text was posted and the status is 200
Forwards(text, outcome) == Posts(text) /\ outcome = "ok"

\* TextToSpeechService.generate(gpt_reply, icount), called for the chunk
\* (index, text).
\* requests.post is a blocking call, so generate runs in one step; on status
\* 200 it emits 'speech', which schedules handle_speech as a task; on any
\* other status and on an exception the chunk is logged and dropped.
generate(index, icount, text, outcome) ==
    /\ synth' = Append(synth,
           [index |-> index, icount |-> icount, text |-> text,
            status |-> IF ~Posts(text) THEN "skipped"
                       ELSE IF outcome = "ok" THEN "ok" ELSE "failed"])
    /\ inflight' = IF Forwards(text, outcome)
                     THEN Append(inflight, [index |-> index, icount |-> icount])
                     ELSE inflight

\* handle_message of src/backend/app.py, event 'start': bind the identifiers
\* and synthesize the welcome message with partial_response_index None. The
\* telephony service sends one start event per stream, before any other
\* event of the stream; the audio the transcripts are made from follows it.
Start ==
    \E sid \in StreamSids, outcome \in Outcomes :
        /\ app = "backend"
        /\ registered /\ ~ended
        /\ starts = 0
        /\ starts' = starts + 1
        /\ conn_stream_sid' = sid
        /\ set_stream_sid(sid)
        /\ user_context' = set_call_sid(user_context)
        /\ generate(None, 0, WelcomeText, outcome)
        /\ last_msg' = Msg("start", 0, 1 - last_msg.n)
        /\ UNCHANGED <<sttvars, ended, unhandled,
                       expected_audio_index, audio_buffer, coroutines, outvars,
                       partial_response_index, interaction_count, active,
                       replies, calls, utterances, app, dispatched, finished,
                       ntrans, overlapped, registered, stop_seen, forwarded,
                       thrvars>>

\* handle_message of src/phone-service/app.py, event 'start': bind the
\* identifiers; nothing is given to the synthesis service.
StartPhone ==
    \E sid \in StreamSids :
        /\ app = "phone-service"
        /\ registered /\ ~ended
        /\ starts = 0
        /\ starts' = starts + 1
        /\ conn_stream_sid' = sid
        /\ set_stream_sid(sid)
        /\ user_context' = set_call_sid(user_context)
        /\ last_msg' = Msg("start", 0, 1 - last_msg.n)
        /\ UNCHANGED <<sttvars, ended, unhandled,
                       expected_audio_index, audio_buffer, coroutines, outvars,
                       partial_response_index, interaction_count, active,
                       inflight, replies, calls, utterances, app, synth,
                       dispatched, finished, ntrans, overlapped, registered,
                       stop_seen, forwarded, thrvars>>

\* handle_message of src/backend/app.py, event 'media': every payload goes to
\* TranscriptionService.send.
Media ==
    \E payload \in MediaPayloads :
        /\ app = "backend"
        /\ registered /\ ~ended
        /\ starts = 1
        /\ forwarded < MaxMedia
        /\ forwarded' = forwarded + 1
        /\ last_msg' = Msg("media", payload, 1 - last_msg.n)
        /\ UNCHANGED <<sttvars, ended, unhandled,
                       bufvars, outvars, appvars, calls, utterances, gptvars,
                       app, registered, stop_seen, thrvars>>

\* handle_message of src/phone-service/app.py, event 'media': if payload
MediaPhone ==
    \E payload \in MediaPayloads :
        /\ app = "phone-service"
        /\ registered /\ ~ended
        /\ starts = 1
        /\ forwarded < MaxMedia
        /\ forwarded' = IF payload # 0 THEN forwarded + 1 ELSE forwarded
        /\ last_msg' = Msg("media", payload, 1 - last_msg.n)
        /\ UNCHANGED <<sttvars, ended, unhandled,
                       bufvars, outvars, appvars, calls, utterances, gptvars,
                       app, registered, stop_seen, thrvars>>

\* the i-th element of a list removed
Remove(s, i) == SubSeq(s, 1, i - 1) \o SubSeq(s, i + 1, Len(s))

\* conn['marks'] = [m for m in conn['marks'] if m != msg['mark']['name']]
RemoveMark(ms, name) == SelectSeq(ms, LAMBDA m : m # name)

\* if mark_name and mark_name in marks: marks.remove(mark_name)
RemoveFirst(ms, name) ==
    IF name # 0 /\ \E p \in 1..Len(ms) : ms[p] = name
      THEN Remove(ms, CHOOSE p \in 1..Len(ms) :
                          ms[p] = name /\ \A q \in 1..(p - 1) : ms[q] # name)
      ELSE ms

\* a mark handler that also empties the pending audio
Mark_ClearsBuffer ==
    \E name \in MarkNames :
        /\ app = "backend"
        /\ registered /\ ~ended
        /\ starts = 1
        /\ marks' = RemoveMark(marks, name)
        /\ audio_buffer' = << >>
        /\ last_msg' = Msg("mark", name, 1 - last_msg.n)
        /\ UNCHANGED <<sttvars, ended, unhandled,
                       stream_sid, expected_audio_index, coroutines, ws_out,
                       appvars, calls, utterances, gptvars, app, registered,
                       stop_seen, forwarded, thrvars>>

\* handle_message of src/backend/app.py, event 'mark'
Mark ==
    \E name \in MarkNames :
        /\ app = "backend"
        /\ registered /\ ~ended
        /\ starts = 1
        /\ marks' = RemoveMark(marks, name)
        /\ last_msg' = Msg("mark", name, 1 - last_msg.n)
        /\ UNCHANGED <<sttvars, ended, unhandled,
                       bufvars, ws_out, appvars, calls, utterances, gptvars,
                       app, registered, stop_seen, forwarded, thrvars>>

\* handle_message of src/phone-service/app.py, event 'mark'
MarkPhone ==
    \E name \in MarkNames :
        /\ app = "phone-service"
        /\ registered /\ ~ended
        /\ starts = 1
        /\ marks' = RemoveFirst(marks, name)
        /\ last_msg' = Msg("mark", name, 1 - last_msg.n)
        /\ UNCHANGED <<sttvars, ended, unhandled,
                       bufvars, ws_out, appvars, calls, utterances, gptvars,
                       app, registered, stop_seen, forwarded, thrvars>>

\* handle_message of either app, event 'stop': a log line and nothing else
Stop ==
    /\ registered /\ ~ended
    /\ starts = 1
    /\ stop_seen' = TRUE
    /\ last_msg' = Msg("stop", 0, 1 - last_msg.n)
    /\ UNCHANGED <<sttvars, ended, unhandled,
                   bufvars, outvars, appvars, calls, utterances, gptvars,
                   app, registered, forwarded, thrvars>>

\* websocket_endpoint, except WebSocketDisconnect: del connections[client_id];
\* the read loop has ended, so handle_message is not called again.
Disconnect ==
    /\ registered /\ ~ended
    /\ registered' = FALSE
    /\ ended' = TRUE
    /\ UNCHANGED <<sttvars, unhandled,
                   bufvars, outvars, appvars, calls, utterances, gptvars,
                   app, stop_seen, forwarded, last_msg, thrvars>>

\* websocket_endpoint, except Exception: receive_text raises something other
\* than WebSocketDisconnect. The inner try has no clause for it, so it
\* leaves the loop and reaches the outer handler, which logs it and returns:
\* connections[client_id] is not deleted. (A failure of cleanup() in the
\* phone service is caught before the del and is part of Disconnect.)
ReceiveError ==
    /\ registered /\ ~ended
    /\ ended' = TRUE
    /\ UNCHANGED <<sttvars, unhandled,
                   bufvars, outvars, appvars, calls, utterances, gptvars,
                   connvars, thrvars>>

\* a completion() call: its number, the transcript it answers, its
\* interaction_count argument, whether emit runs it in a fallback thread
\* after a first run failed, and where it is:
\*   "thread"   the fallback thread is started, handle_transcription not yet run
\*   "request"  the user turn is appended, the request not yet issued
\*              (fallback threads only)
\*   "stream"   the request is issued (seen: the context it read)
\*   "emitted", "emitted_stop"
\*              'gptreply' is emitted for a pause marker, or for the chunk
\*              with finish_reason 'stop', and partial_response_index not
\*              yet incremented (only where threads interleave)
\*   "stopped"  the chunk with finish_reason 'stop' has been handled
NewCall(call, text, retry, phase) ==
    [call |-> call, text |-> text, icount |-> 0, retry |-> retry, phase |-> phase,
     seen |-> << >>, complete |-> 0]

NextCallId == Len(finished) + Len(active) + 1

Ended(c, outcome) ==
    [call |-> c.call, text |-> c.text, icount |-> c.icount, retry |-> c.retry,
     outcome |-> outcome, seen |-> c.seen, complete |-> c.complete]

\* the transcription SDK's thread is not inside a listener: emit runs
\* handle_transcription and handle_utterance on it with run_until_complete,
\* which returns when the listener has ended.
SdkIdle == \A k \in 1..Len(active) : active[k].retry

\* completion() is running in call number k of active
Running(k) ==
    active[k].phase \in {"request", "stream", "emitted", "emitted_stop", "stopped"}

\* handle_transcription(text), text non-empty, on the transcription SDK's
\* thread: completion(text, conn['interaction_count']) appends the user turn
\* and issues the request. The phone service's endpoint closes the
\* transcription connection when the websocket disconnects
\* (transcription_service.cleanup()), the backend's leaves it open.
BeginCompletion ==
    /\ ntrans < MaxTurns
    /\ SdkIdle
    /\ starts = 1
    /\ app = "phone-service" => registered
    /\ ntrans' = ntrans + 1
    /\ user_context' = update_user_context(user_context, "user", NextCallId,
                                           ntrans + 1)
    /\ active' = Append(active,
           [NewCall(NextCallId, ntrans + 1, FALSE, "stream") EXCEPT
               !.icount = interaction_count,
               !.seen = user_context'])
    /\ overlapped' = (overlapped \/ \E j \in 1..Len(active) : Running(j))
    /\ UNCHANGED <<sttvars, ended, unhandled,
                   bufvars, outvars, conn_stream_sid, partial_response_index,
                   interaction_count, inflight, replies, starts, calls,
                   utterances, synth, dispatched, finished, connvars, thrvars>>

\* handle_transcription(''): if not text: return. The transcription service
\* emits its collected text, possibly empty, on an UtteranceEnd.
EmptyTranscription ==
    /\ ntrans < MaxTurns
    /\ SdkIdle
    /\ starts = 1
    /\ app = "phone-service" => registered
    /\ ntrans' = ntrans + 1
    /\ UNCHANGED <<sttvars, ended, unhandled,
                   bufvars, outvars, appvars, calls, utterances, user_context,
                   dispatched, finished, overlapped, connvars, thrvars>>

\* handle_transcription run again by emit in a fallback thread: completion()
\* starts and appends the user turn of the same transcript. The other
\* threads run on before this one issues its request.
RetryCompletion ==
    \E k \in 1..Len(active) :
        /\ active[k].phase = "thread"
        /\ user_context' = update_user_context(user_context, "user",
                                               active[k].call, active[k].text)
        /\ active' = [active EXCEPT ![k].phase = "request",
                                    ![k].icount = interaction_count]
        /\ overlapped' = (overlapped \/
                            \E j \in 1..Len(active) : j # k /\ Running(j))
        /\ UNCHANGED <<sttvars, ended, unhandled,
                       bufvars, outvars, conn_stream_sid, partial_response_index,
                       interaction_count, inflight, replies, starts, calls,
                       utterances, synth, dispatched, finished, ntrans, connvars,
                       thrvars>>

\* completion() in a fallback thread:
\* self.openai.chat.completions.create(messages=self.user_context)
RetryRequest ==
    \E k \in 1..Len(active) :
        /\ active[k].phase = "request"
        /\ active' = [active EXCEPT ![k].phase = "stream",
                                    ![k].seen = user_context]
        /\ UNCHANGED <<sttvars, ended, unhandled,
                       bufvars, outvars, conn_stream_sid, partial_response_index,
                       interaction_count, inflight, replies, synth, starts,
                       calls, utterances, user_context, dispatched, finished,
                       ntrans, overlapped, connvars, thrvars>>

\* a counter that skips a number at every chunk
NextIndex_Skip(index) == index + 2

\* self.partial_response_index += 1
NextIndex(index) == index + 1

\* completion(): the tokens up to a chunk boundary in the token stream of a
\* running call, a token ending with the pause marker or the chunk with
\* finish_reason 'stop'. The tokens before the boundary only grow the locals
\* complete_response and partial_response; text is partial_response at the
\* boundary, not empty when a pause marker ends it. completion() emits
\* 'gptreply' with the next partial_response_index, which schedules
\* handle_gpt_reply as a task.
GptReply ==
    \E k \in 1..Len(active), kind \in {"pause", "stop"}, text \in Texts :
        LET c == active[k]
            reply == [index |-> partial_response_index, call |-> c.call,
                      icount |-> c.icount, text |-> text]
        IN /\ c.phase = "stream"
           /\ kind = "pause" => text # 0
           /\ partial_response_index < MaxChunks
           /\ dispatched' = Append(dispatched, reply)
           /\ replies' = Append(replies, reply)
           /\ partial_response_index' = NextIndex(partial_response_index)
           /\ active' = [active EXCEPT
                  ![k].complete = @ + text,
                  ![k].phase = IF kind = "stop" THEN "stopped" ELSE @]
           /\ UNCHANGED <<sttvars, ended, unhandled,
                          bufvars, outvars, conn_stream_sid, interaction_count,
                          inflight, starts, calls, utterances, synth,
                          user_context, finished, ntrans, overlapped, connvars,
                          thrvars>>

\* completion() at a chunk boundary while another thread may run, lines
\* 66-71: gpt_reply is built with the current partial_response_index and
\* 'gptreply' is emitted. The call to emit is where the interpreter may
\* switch to another thread.
GptReplyEmit ==
    \E k \in 1..Len(active), kind \in {"pause", "stop"}, text \in Texts :
        LET c == active[k]
            reply == [index |-> partial_response_index, call |-> c.call,
                      icount |-> c.icount, text |-> text]
        IN /\ c.phase = "stream"
           /\ kind = "pause" => text # 0
           /\ Len(dispatched) < MaxChunks
           /\ dispatched' = Append(dispatched, reply)
           /\ replies' = Append(replies, reply)
           /\ active' = [active EXCEPT
                  ![k].complete = @ + text,
                  ![k].phase = IF kind = "stop" THEN "emitted_stop" ELSE "emitted"]
           /\ UNCHANGED <<sttvars, ended, unhandled,
                          bufvars, outvars, conn_stream_sid,
                          partial_response_index, interaction_count, inflight,
                          starts, calls, utterances, synth, user_context,
                          finished, ntrans, overlapped, connvars, thrvars>>

\* line 72: self.partial_response_index += 1
GptReplyIncrement ==
    \E k \in 1..Len(active) :
        /\ active[k].phase \in {"emitted", "emitted_stop"}
        /\ partial_response_index' = NextIndex(partial_response_index)
        /\ active' = [active EXCEPT ![k].phase =
                         IF @ = "emitted_stop" THEN "stopped" ELSE "stream"]
        /\ UNCHANGED <<sttvars, ended, unhandled,
                       bufvars, outvars, conn_stream_sid, interaction_count,
                       inflight, replies, starts, calls, utterances, synth,
                       user_context, dispatched, finished, ntrans, overlapped,
                       connvars, thrvars>>

\* handle_gpt_reply(gpt_reply, icount): the scheduled tasks run first in,
\* first out; each awaits generate.
Generate ==
    \E outcome \in Outcomes :
        /\ replies # << >>
        /\ generate(Head(replies).index, Head(replies).icount,
                    Head(replies).text, outcome)
        /\ replies' = Tail(replies)
        /\ UNCHANGED <<sttvars, ended, unhandled,
                       bufvars, outvars, conn_stream_sid, partial_response_index,
                       interaction_count, active, starts, calls, utterances,
                       user_context, dispatched, finished, ntrans, overlapped,
                       connvars, thrvars>>

\* a handler that forgets to count the exchange
EndCompletion_NoCount ==
    \E k \in 1..Len(active) :
        /\ active[k].phase \in {"stream", "stopped"}
        /\ user_context' = update_user_context(user_context, "assistant",
                               active[k].call, active[k].complete)
        /\ finished' = Append(finished, Ended(active[k], "done"))
        /\ active' = Remove(active, k)
        /\ interaction_count' = interaction_count
        /\ UNCHANGED <<sttvars, ended, unhandled,
                       bufvars, outvars, conn_stream_sid, partial_response_index,
                       inflight, replies, starts, calls, utterances, synth,
                       dispatched, ntrans, overlapped, connvars, thrvars>>

\* the token stream ends: completion() appends the assistant turn and returns;
\* handle_transcription then increments conn['interaction_count'].
EndCompletion ==
    \E k \in 1..Len(active) :
        /\ active[k].phase \in {"stream", "stopped"}
        /\ user_context' = update_user_context(user_context, "assistant",
                               active[k].call, active[k].complete)
        /\ finished' = Append(finished, Ended(active[k], "done"))
        /\ active' = Remove(active, k)
        /\ interaction_count' = interaction_count + 1
        /\ UNCHANGED <<sttvars, ended, unhandled,
                       bufvars, outvars, conn_stream_sid, partial_response_index,
                       inflight, replies, starts, calls, utterances, synth,
                       dispatched, ntrans, overlapped, connvars, thrvars>>

\* the request fails or the stream raises: completion() and
\* handle_transcription end with the exception. On the SDK's thread emit
\* swallows it (except: pass) and goes on to start a fallback thread that
\* runs the listener again; in a fallback thread the exception is logged.
FailCompletion ==
    \E k \in 1..Len(active) :
        /\ active[k].phase = "stream"
        /\ finished' = Append(finished, Ended(active[k], "failed"))
        /\ active' = IF active[k].retry
                       THEN Remove(active, k)
                       ELSE [active EXCEPT ![k] =
                               NewCall(NextCallId, active[k].text, TRUE, "thread")]
        /\ UNCHANGED <<sttvars, ended, unhandled,
                       bufvars, outvars, conn_stream_sid, partial_response_index,
                       interaction_count, inflight, replies, starts, calls,
                       utterances, synth, user_context, dispatched, ntrans,
                       overlapped, connvars, thrvars>>

\* handle_speech(response_index, audio, label, icount): the tasks of one
\* event loop run first in, first out: the welcome message's on the server's
\* loop, those of the chunks on the transcription service's; each calls
\* stream_service.buffer and awaits what it returns. buffer is a plain def
\* and returns None, so the await raises TypeError out of the listener once
\* buffer has run.
Speech ==
    \E i \in 1..Len(inflight) :
        /\ \A j \in 1..(i - 1) :
              (inflight[j].index = None) # (inflight[i].index = None)
        /\ buffer(inflight[i].index, Len(calls) + 1)
        /\ inflight' = Remove(inflight, i)
        /\ unhandled' = unhandled \cup {"TypeError"}
        /\ UNCHANGED <<sttvars, ended,
                       conn_stream_sid, partial_response_index, interaction_count,
                       active, replies, starts, utterances, synth, gptvars,
                       connvars, thrvars>>

\* an interim transcript arrives from the transcription service
Utterance ==
    \E len \in TextLens :
        /\ Len(utterances) < MaxUtterances
        /\ SdkIdle
        /\ starts = 1
        /\ handle_utterance(len)

\* the session of src/backend/app.py
InitBackend == Init /\ app = "backend"

\* the session while every language-model request is answered
Next ==
    \/ Start
    \/ BeginCompletion
    \/ EmptyTranscription
    \/ GptReply
    \/ Generate
    \/ EndCompletion
    \/ Speech
    \/ Utterance

Spec == InitBackend /\ [][Next]_vars

\* the same session with its scheduling: a loop runs the tasks scheduled on
\* it (handle_gpt_reply, handle_speech), and a token stream that does not
\* fail comes to its end
SpecLive ==
    /\ InitBackend
    /\ [][Next]_vars
    /\ WF_vars(Generate)
    /\ WF_vars(Speech)
    /\ WF_vars(EndCompletion)

\* ------------------------------------- SpecGpt: completions and failures

\* GptService and handle_transcription with a language model that may fail.
\* handle_speech and handle_utterance are left out: they neither read nor
\* write the variables of GptService and handle_transcription.
NextGpt ==
    \/ Start
    \/ BeginCompletion
    \/ RetryCompletion
    \/ RetryRequest
    \/ GptReplyEmit
    \/ GptReplyIncrement
    \/ EndCompletion
    \/ FailCompletion

SpecGpt == InitBackend /\ [][NextGpt]_vars

\* ------------------------------ SpecSession: the connection's lifecycle

\* the inbound messages of both apps and the disconnect, with the pipeline
\* behind them
NextSession ==
    \/ Start
    \/ StartPhone
    \/ Media
    \/ MediaPhone
    \/ Mark
    \/ MarkPhone
    \/ Stop
    \/ Disconnect
    \/ BeginCompletion
    \/ GptReply
    \/ Generate
    \/ EndCompletion
    \/ Speech

SpecSession == Init /\ [][NextSession]_vars

\* ------------------------------------ SpecMessages: any inbound message

\* the messages handle_message does nothing for: text that is not JSON, a
\* message without an event or with an unknown one, a media message without
\* payload, a mark message without name
IgnoredKinds ==
    {"not-json", "no-event", "unknown-event", "media-no-payload", "mark-no-name"}

\* handle_message of either app for such a message: json.loads or a
\* subscript raises and the handler's except clause logs it (the phone
\* service reads with .get and skips), or no branch is taken
Ignored ==
    \E kind \in IgnoredKinds :
        /\ registered /\ ~ended
        /\ last_msg' = Msg(kind, 0, 1 - last_msg.n)
        /\ UNCHANGED <<sttvars, ended, unhandled,
                       bufvars, outvars, appvars, calls, utterances, gptvars,
                       app, registered, stop_seen, forwarded, thrvars>>

\* handle_message of src/backend/app.py for a start message with
\* start.streamSid and without start.callSid: conn['stream_sid'] is assigned,
\* then msg['start']['callSid'] raises KeyError, which the except clause logs
StartNoCallSid ==
    \E sid \in StreamSids :
        /\ app = "backend"
        /\ registered /\ ~ended
        /\ starts = 0
        /\ starts' = starts + 1
        /\ conn_stream_sid' = sid
        /\ last_msg' = Msg("start-no-callSid", 0, 1 - last_msg.n)
        /\ UNCHANGED <<sttvars, ended, unhandled,
                       bufvars, outvars, partial_response_index,
                       interaction_count, active, inflight, replies, synth,
                       calls, utterances, gptvars, app, registered, stop_seen,
                       forwarded, thrvars>>

\* handle_message of src/phone-service/app.py for a start message without
\* streamSid and callSid: message.get gives None for both, and the handler
\* goes on with set_stream_sid(None) and set_call_sid(None)
StartPhoneNoSids ==
    /\ app = "phone-service"
    /\ registered /\ ~ended
    /\ starts = 0
    /\ starts' = starts + 1
    /\ conn_stream_sid' = NoneSid
    /\ set_stream_sid(NoneSid)
    /\ user_context' = set_call_sid(user_context)
    /\ last_msg' = Msg("start-no-sids", 0, 1 - last_msg.n)
    /\ UNCHANGED <<sttvars, ended, unhandled,
                   expected_audio_index, audio_buffer, coroutines, outvars,
                   partial_response_index, interaction_count, active,
                   inflight, replies, calls, utterances, app, synth,
                   dispatched, finished, ntrans, overlapped, registered,
                   stop_seen, forwarded, thrvars>>

\* the endpoint's read loop with any message, and the disconnect
NextMessages ==
    \/ Start
    \/ StartPhone
    \/ StartNoCallSid
    \/ StartPhoneNoSids
    \/ Media
    \/ MediaPhone
    \/ Mark
    \/ MarkPhone
    \/ Stop
    \/ Ignored
    \/ Disconnect
    \/ ReceiveError

SpecMessages == Init /\ [][NextMessages]_vars

\* ---------------------- SpecStt: the Transcript callback of the service

\* what the transcription SDK gives on_transcript: an UtteranceEnd message,
\* or a result that is final with text (and speech_final or not), final with
\* blank text, or interim
ResultKinds == {"UtteranceEnd", "final", "speech_final", "blank_final", "interim"}

\* on_transcript, type == "UtteranceEnd": if speech_final is not set the text
\* collected so far is emitted as 'transcription'; final_result is left as it
\* is
OnUtteranceEnd(r) ==
    /\ r = "UtteranceEnd"
    /\ IF ~speech_final
         THEN /\ nends < MaxEnds
              /\ transcriptions' = Append(transcriptions, final_result)
              /\ nends' = nends + 1
         ELSE UNCHANGED <<transcriptions, nends>>
    /\ UNCHANGED <<final_result, speech_final, npieces, utterances, ws_out>>

\* on_transcript, is_final and text.strip(): the piece is added to
\* final_result; with speech_final the text is emitted as 'transcription'
\* and final_result emptied, without it speech_final is reset. The pieces
\* are numbered as they come.
OnFinalPiece(r) ==
    /\ r \in {"final", "speech_final"}
    /\ npieces < MaxPieces
    /\ npieces' = npieces + 1
    /\ IF r = "speech_final"
         THEN /\ speech_final' = TRUE
              /\ transcriptions' = Append(transcriptions,
                                          Append(final_result, npieces + 1))
              /\ final_result' = << >>
         ELSE /\ speech_final' = FALSE
              /\ final_result' = Append(final_result, npieces + 1)
              /\ UNCHANGED transcriptions
    /\ UNCHANGED <<nends, utterances, ws_out>>

\* on_transcript, anything else: the text is emitted as 'utterance', whose
\* listener is handle_utterance
OnInterim(r) ==
    /\ r \in {"blank_final", "interim"}
    /\ Len(utterances) < MaxUtterances
    /\ \E len \in TextLens :
          /\ r = "blank_final" => len = 0
          /\ handle_utterance(len)

\* the Transcript callback. The listeners of 'transcription' are not run
\* here.
OnTranscript ==
    \E r \in ResultKinds :
        \/ /\ OnUtteranceEnd(r)
           /\ UNCHANGED <<bufvars, marks, appvars, calls, gptvars, connvars,
                          thrvars, ended, unhandled>>
        \/ /\ OnFinalPiece(r)
           /\ UNCHANGED <<bufvars, marks, appvars, calls, gptvars, connvars,
                          thrvars, ended, unhandled>>
        \/ OnInterim(r)

NextStt == OnTranscript

SpecStt == Init /\ [][NextStt]_vars

\* --------------------------- SpecThreads: buffer() called from two threads

\* handle_speech runs on the loop of the thread whose completion dispatched
\* the chunk: the transcription SDK's thread, or a fallback thread of emit.
\* buffer() takes no lock, so the threads interleave between any two
\* accesses of the object's attributes. Each sequence number is submitted
\* once.

\* handle_speech calls buffer(index, audio) in thread t
BufferCall ==
    \E t \in Threads, index \in Indexes :
        /\ pc[t] = "idle"
        /\ \A p \in 1..Len(calls) : calls[p].index # index
        /\ calls' = Append(calls, [index |-> index, audio |-> Len(calls) + 1,
                                   expected |-> expected_audio_index,
                                   bound |-> Bound(stream_sid)])
        /\ targ' = [targ EXCEPT ![t] = [index |-> index, audio |-> Len(calls) + 1]]
        /\ pc' = [pc EXCEPT ![t] = "test"]
        /\ UNCHANGED <<sttvars, ended, unhandled,
                       bufvars, outvars, appvars, utterances, gptvars, connvars,
                       tmp>>

\* elif index == self.expected_audio_index: ... else:
BufferTest ==
    \E t \in Threads :
        /\ pc[t] = "test"
        /\ pc' = [pc EXCEPT ![t] =
                    IF IsExpected(targ[t].index, expected_audio_index)
                      THEN "send" ELSE "store"]
        /\ UNCHANGED <<sttvars, ended, unhandled,
                       bufvars, outvars, appvars, calls, utterances, gptvars,
                       connvars, targ, tmp>>

\* self.send_audio(audio), line 31
BufferSend ==
    \E t \in Threads :
        /\ pc[t] = "send"
        /\ coroutines' = send_audio(coroutines, targ[t].audio)
        /\ pc' = [pc EXCEPT ![t] = "load"]
        /\ UNCHANGED <<sttvars, ended, unhandled,
                       stream_sid, expected_audio_index, audio_buffer, outvars,
                       appvars, calls, utterances, gptvars, connvars, targ, tmp>>

\* self.expected_audio_index += 1, lines 32 and 38: the attribute is read ...
BufferLoad ==
    \E t \in Threads :
        /\ pc[t] = "load"
        /\ tmp' = [tmp EXCEPT ![t].expected = expected_audio_index]
        /\ pc' = [pc EXCEPT ![t] = "incr"]
        /\ UNCHANGED <<sttvars, ended, unhandled,
                       bufvars, outvars, appvars, calls, utterances, gptvars,
                       connvars, targ>>

\* ... and the value read, plus one, is written
BufferIncr ==
    \E t \in Threads :
        /\ pc[t] = "incr"
        /\ expected_audio_index' = NextIndex(tmp[t].expected)
        /\ pc' = [pc EXCEPT ![t] = "while"]
        /\ UNCHANGED <<sttvars, ended, unhandled,
                       stream_sid, audio_buffer, coroutines, outvars, appvars,
                       calls, utterances, gptvars, connvars, targ, tmp>>

\* while self.expected_audio_index in self.audio_buffer: the attribute is
\* read ...
BufferWhile ==
    \E t \in Threads :
        /\ pc[t] = "while"
        /\ tmp' = [tmp EXCEPT ![t].expected = expected_audio_index]
        /\ pc' = [pc EXCEPT ![t] = "in"]
        /\ UNCHANGED <<sttvars, ended, unhandled,
                       bufvars, outvars, appvars, calls, utterances, gptvars,
                       connvars, targ>>

\* ... and looked up in audio_buffer
BufferIn ==
    \E t \in Threads :
        /\ pc[t] = "in"
        /\ pc' = [pc EXCEPT ![t] =
                    IF tmp[t].expected \in DOMAIN audio_buffer
                      THEN "get" ELSE "idle"]
        /\ UNCHANGED <<sttvars, ended, unhandled,
                       bufvars, outvars, appvars, calls, utterances, gptvars,
                       connvars, targ, tmp>>

\* buffered_audio = self.audio_buffer[self.expected_audio_index]; a missing
\* key raises KeyError, which buffer() logs and returns
BufferGet ==
    \E t \in Threads :
        /\ pc[t] = "get"
        /\ IF expected_audio_index \in DOMAIN audio_buffer
             THEN /\ tmp' = [tmp EXCEPT ![t].buffered_audio =
                                 audio_buffer[expected_audio_index]]
                  /\ pc' = [pc EXCEPT ![t] = "send_buffered"]
             ELSE /\ pc' = [pc EXCEPT ![t] = "idle"]
                  /\ UNCHANGED tmp
        /\ UNCHANGED <<sttvars, ended, unhandled,
                       bufvars, outvars, appvars, calls, utterances, gptvars,
                       connvars, targ>>

\* self.send_audio(buffered_audio), line 37
BufferSendBuffered ==
    \E t \in Threads :
        /\ pc[t] = "send_buffered"
        /\ coroutines' = send_audio(coroutines, tmp[t].buffered_audio)
        /\ pc' = [pc EXCEPT ![t] = "load"]
        /\ UNCHANGED <<sttvars, ended, unhandled,
                       stream_sid, expected_audio_index, audio_buffer, outvars,
                       appvars, calls, utterances, gptvars, connvars, targ, tmp>>

\* self.audio_buffer[index] = audio
BufferStore ==
    \E t \in Threads :
        /\ pc[t] = "store"
        /\ audio_buffer' = Store(audio_buffer, targ[t].index, targ[t].audio)
        /\ pc' = [pc EXCEPT ![t] = "idle"]
        /\ UNCHANGED <<sttvars, ended, unhandled,
                       stream_sid, expected_audio_index, coroutines, outvars,
                       appvars, calls, utterances, gptvars, connvars, targ, tmp>>

NextThreads ==
    \/ SetStreamSid
    \/ BufferCall
    \/ BufferTest
    \/ BufferSend
    \/ BufferLoad
    \/ BufferIncr
    \/ BufferWhile
    \/ BufferIn
    \/ BufferGet
    \/ BufferSendBuffered
    \/ BufferStore

SpecThreads == Init /\ [][NextThreads]_vars

\* ------------------------------------------------------------------ claims

\* the media frames of the sink, in order, and their payloads
Medias(out) == SelectSeq(out, LAMBDA f : f.event = "media")

Payloads(out) == [i \in 1..Len(Medias(out)) |-> Medias(out)[i].payload]

Range(s) == {s[i] : i \in 1..Len(s)}

\* the step is a buffer() call; LastCall is that call
IsCall == Len(calls') = Len(calls) + 1

LastCall == calls'[Len(calls')]

\* the call was stale when made: a sequence number below expected_audio_index
Stale(c) == c.index # None /\ c.index < c.expected

\* the calls so far are the chunks 0..n, each once, all with the stream
\* identifier bound
PermutationDone(n) ==
    /\ Len(calls) = n + 1
    /\ \A k \in 0..n : \E p \in 1..Len(calls) : calls[p].index = k
    /\ \A p \in 1..Len(calls) : calls[p].bound

AudioOf(k) == calls[CHOOSE p \in 1..Len(calls) : calls[p].index = k].audio

\* the sequencer's release decisions alone: once 0..n have been submitted in
\* any order, send_audio has been called for chunk 0, 1, ..., n in that order.
ReleaseOrder ==
    \A n \in 0..MaxIndex :
        PermutationDone(n) => coroutines = [i \in 1..(n + 1) |-> AudioOf(i - 1)]

\* C1: from a fresh buffer with the stream identifier bound, once the chunks
\* 0..N have been submitted in any order the audio written to the outbound
\* sink is chunk 0, chunk 1, ..., chunk N in that order.
C1_InOrderEmission ==
    \A n \in 0..MaxIndex :
        PermutationDone(n) => Payloads(ws_out) = [i \in 1..(n + 1) |-> AudioOf(i - 1)]

\* the first sequence number above i that pending (buf) does not hold
FirstGap(i, buf) ==
    CHOOSE m \in (i + 1)..(MaxIndex + 2) :
        /\ m \notin DOMAIN buf
        /\ \A j \in (i + 1)..(m - 1) : j \in DOMAIN buf

\* C2: a submit above expectedIndex writes nothing to the sink; a submit equal
\* to expectedIndex writes that chunk and then every consecutively numbered
\* chunk held in pending, in increasing order, in the same call, and leaves
\* expectedIndex at the first sequence number not yet submitted.
C2_CascadingRelease ==
    [][IsCall /\ LastCall.index # None /\ LastCall.bound =>
        LET c == LastCall
            m == FirstGap(c.index, audio_buffer)
        IN /\ c.index > c.expected => Payloads(ws_out') = Payloads(ws_out)
           /\ c.index = c.expected =>
                /\ Payloads(ws_out') = Payloads(ws_out) \o <<c.audio>> \o
                       [j \in 1..(m - c.index - 1) |-> audio_buffer[c.index + j]]
                /\ expected_audio_index' = m
                /\ m \notin {calls'[p].index : p \in 1..Len(calls')}
      ]_vars

\* C3: a submit with a sequence number below expectedIndex is dropped: the call
\* calls send_audio for nothing, writes nothing to the sink, leaves
\* expectedIndex and the marks alone, and its audio is never released or
\* written by any later call either.
C3_StaleDropped ==
    [][/\ IsCall /\ Stale(LastCall) =>
            UNCHANGED <<expected_audio_index, coroutines, ws_out, marks>>
       /\ \A p \in 1..Len(calls') :
            Stale(calls'[p]) =>
                /\ calls'[p].audio \notin Range(coroutines')
                /\ calls'[p].audio \notin Range(Payloads(ws_out'))
      ]_vars

\* a stale chunk was submitted and a later call released its own chunk
C3_Witness ==
    \E p, q \in 1..Len(calls) :
        /\ p < q
        /\ Stale(calls[p])
        /\ calls[q].index = calls[q].expected
        /\ calls[p].index \in DOMAIN audio_buffer

\* C4: a chunk submitted with index None is written to the sink at once,
\* whatever expectedIndex and pending are, and leaves both unchanged.
C4_SentinelBypass ==
    [][IsCall /\ LastCall.index = None /\ LastCall.bound =>
        /\ Payloads(ws_out') = Append(Payloads(ws_out), LastCall.audio)
        /\ UNCHANGED <<expected_audio_index, audio_buffer>>
      ]_vars

\* how many media frames of the sink carry a chunk submitted with number k
EmittedCount(k) ==
    Cardinality({i \in 1..Len(Medias(ws_out)) :
        \E p \in 1..Len(calls) :
            calls[p].index = k /\ calls[p].audio = Medias(ws_out)[i].payload})

\* C5: in every reachable state every sequence number below expectedIndex has
\* been written to the sink exactly once, and no number more than once.
C5_ExactlyOnce ==
    (\A p \in 1..Len(calls) : calls[p].bound) =>
        /\ \A k \in 0..(expected_audio_index - 1) : EmittedCount(k) = 1
        /\ \A k \in Indexes : EmittedCount(k) <= 1

\* C6: pending (audio_buffer) holds no key below expectedIndex.
C6_NoKeyBelowExpected ==
    \A k \in DOMAIN audio_buffer : k >= expected_audio_index

\* no frame is ever written and no mark is ever outstanding: send_audio is the
\* only writer of media and mark frames and the only source of 'audiosent',
\* and it never runs; so handle_utterance never takes its branch.
NothingSent == ws_out = << >> /\ marks = << >>

\* the step handles an interim transcript; LastLen is its length
IsUtterance == Len(utterances') = Len(utterances) + 1

LastLen == utterances'[Len(utterances')]

Clears(out) == SelectSeq(out, LAMBDA f : f.event = "clear")

C10_MediaThenMark ==
    [][Len(coroutines') > Len(coroutines) /\ stream_sid # NoSid =>
        LET n == Len(coroutines') - Len(coroutines)
        IN /\ Len(ws_out') = Len(ws_out) + 2 * n
           /\ Len(marks') = Len(marks) + n
           /\ \A j \in 1..n :
                /\ ws_out'[Len(ws_out) + 2 * j - 1] =
                       MediaFrame(stream_sid, coroutines'[Len(coroutines) + j])
                /\ ws_out'[Len(ws_out) + 2 * j] =
                       MarkFrame(stream_sid, marks'[Len(marks) + j])
                /\ marks'[Len(marks) + j] \notin Range(marks)
      ]_vars

\* the sequence numbers submitted to buffer() so far
Submitted == {calls[p].index : p \in 1..Len(calls)} \ {None}

\* C12: stall containment. While the chunk with sequence number k has not been
\* submitted, expected_audio_index does not pass k (and is k once 0..k-1 have
\* been submitted), every chunk above k that was submitted is held in
\* audio_buffer, and none of them has been released or written to the sink.
C12_StallContainment ==
    \A k \in Indexes \ Submitted :
        /\ expected_audio_index <= k
        /\ (\A i \in 0..(k - 1) : i \in Submitted) => expected_audio_index = k
        /\ \A p \in 1..Len(calls) :
             calls[p].index # None /\ calls[p].index > k =>
                /\ calls[p].index \in DOMAIN audio_buffer
                /\ calls[p].audio \notin Range(coroutines)
                /\ calls[p].audio \notin Range(Payloads(ws_out))

\* chunk k was never submitted; k+2 and then k+1 were, and both are held
C12_Witness ==
    \E k \in Indexes \ Submitted :
        /\ expected_audio_index = k
        /\ \E p, q \in 1..Len(calls) :
              p < q /\ calls[p].index = k + 2 /\ calls[q].index = k + 1
        /\ {k + 1, k + 2} \subseteq DOMAIN audio_buffer

\* how many of the first n 'gptreply' events were emitted by call c
DispatchedBy(c, n) == Cardinality({j \in 1..n : dispatched[j].call = c})

\* C13: within one completion() call the dispatched chunks carry the sequence
\* numbers 0, 1, 2, ... in dispatch order: the first chunk of every call has
\* sequence number 0, each later chunk of the call the previous number plus
\* one.
C13_PerCallNumbering ==
    \A i \in 1..Len(dispatched) :
        dispatched[i].index = DispatchedBy(dispatched[i].call, i - 1)

\* C13 as amended: the sequence numbers come from one counter of the session
\* that no call resets. As long as no two completion() calls have run at the
\* same time, the chunks carry 0, 1, 2, ... in dispatch order over all calls
\* of the session: the first chunk of a call has the number of chunks
\* dispatched before it in the session, each later chunk of the call the
\* previous number plus one.
C13_PerSessionNumbering ==
    ~overlapped =>
        /\ \A i \in 1..Len(dispatched) : dispatched[i].index = i - 1
        /\ partial_response_index = Len(dispatched)

\* a second call has dispatched a chunk after the first call's chunk, and no
\* two calls have run at the same time
C13_Witness ==
    /\ ~overlapped
    /\ \E i \in 2..Len(dispatched) :
          /\ dispatched[i].call # dispatched[1].call
          /\ dispatched[i].index = i - 1

\* the positions of call c's turns of a role in the context
TurnsOf(ctx, role, c) ==
    {i \in 1..Len(ctx) : ctx[i].role = role /\ ctx[i].call = c}

\* the context a request read ends with the call's own user turn
SeesOwnTurn(c) ==
    c.seen # << >> /\ c.seen[Len(c.seen)] = Turn("user", c.call, c.text)

\* C14: every completion() call appends its user turn before it issues the
\* request, so the request reads a context whose last turn is that user turn;
\* a call whose token stream completed has exactly one assistant turn, holding
\* the complete response and standing after its user turn; a call that has
\* not completed has none.
C14_UserTurnBeforeRequest ==
    /\ \A k \in 1..Len(active) :
          /\ active[k].phase \in {"stream", "stopped"} => SeesOwnTurn(active[k])
          /\ TurnsOf(user_context, "assistant", active[k].call) = {}
    /\ \A n \in 1..Len(finished) :
          LET f == finished[n]
              A == TurnsOf(user_context, "assistant", f.call)
          IN /\ SeesOwnTurn(f)
             /\ IF f.outcome = "done"
                  THEN /\ Cardinality(A) = 1
                       /\ \A i \in A :
                            /\ user_context[i].content = f.complete
                            /\ \E j \in TurnsOf(user_context, "user", f.call) : j < i
                  ELSE A = {}

\* the sum of the texts dispatched for call c
RECURSIVE DispatchedText(_, _)
DispatchedText(c, n) ==
    IF n = 0 THEN 0
    ELSE DispatchedText(c, n - 1) +
           (IF dispatched[n].call = c THEN dispatched[n].text ELSE 0)

\* completion() has run again for the transcript of the failed call f
Retried(f) ==
    \/ \E k \in 1..Len(active) :
          /\ active[k].call # f.call
          /\ active[k].text = f.text
          /\ Running(k)
    \/ \E n \in 1..Len(finished) :
          finished[n].call # f.call /\ finished[n].text = f.text

\* C15: when the request of a completion() call fails or its stream raises,
\* the chunks it dispatched stay dispatched and it dispatches no more, no
\* assistant turn is appended for it, completion() is not run again for its
\* transcript, and the call is over, so that the next final transcript is
\* handled.
C15_FailureEndsTurn ==
    \A n \in 1..Len(finished) :
        LET f == finished[n]
        IN f.outcome = "failed" =>
             /\ f.complete = DispatchedText(f.call, Len(dispatched))
             /\ TurnsOf(user_context, "assistant", f.call) = {}
             /\ \A k \in 1..Len(active) : active[k].call # f.call
             /\ ~Retried(f)

\* the step is a generate() call; LastSynth is the record of that call
IsGenerate == Len(synth') = Len(synth) + 1

LastSynth == synth'[Len(synth')]

\* the chunk a generate() step was given: the head of the scheduled
\* handle_gpt_reply tasks, or the welcome message
GivenChunk ==
    IF replies # << >> /\ replies' = Tail(replies)
      THEN [index |-> Head(replies).index, text |-> Head(replies).text]
      ELSE [index |-> None, text |-> WelcomeText]

\* C16: every generate() call ends without raising, and: a chunk with empty
\* text is not posted to the synthesis service and nothing is forwarded; when
\* the service answers 200 exactly one 'speech' is forwarded, with the
\* sequence number (or None) of the chunk given; when the service answers
\* anything else or the post raises, nothing is forwarded.
C16_DispatchOutcome ==
    [][IsGenerate =>
        LET g == LastSynth
        IN /\ g.index = GivenChunk.index /\ g.text = GivenChunk.text
           /\ (g.text = 0) = (g.status = "skipped")
           /\ g.status \in {"skipped", "failed"} => inflight' = inflight
           /\ g.status = "ok" =>
                inflight' = Append(inflight, [index |-> g.index, icount |-> g.icount])
      ]_vars

\* an empty chunk was skipped, a chunk failed and a numbered chunk was
\* forwarded
C16_Witness ==
    \E i, j, k \in 1..Len(synth) :
        /\ synth[i].status = "skipped"
        /\ synth[j].status = "failed"
        /\ synth[k].status = "ok" /\ synth[k].index # None
        /\ \E n \in 1..Len(inflight) : inflight[n].index = synth[k].index

\* the step handles an inbound message of the given event
IsMessage(kind) == last_msg' # last_msg /\ last_msg'.kind = kind

C18_StopEndsActivity ==
    [][stop_seen =>
        /\ forwarded' = forwarded
        /\ ntrans' = ntrans
        /\ Len(finished') + Len(active') = Len(finished) + Len(active)
        /\ ws_out' = ws_out
      ]_vars

\* C19: on a disconnect the connection leaves the registry and its resources
\* are released: from then on the sequenced buffer holds no chunk and no mark
\* is outstanding, and no inbound message is handled for it.
C19_DisconnectReleases ==
    [][~registered' =>
         /\ DOMAIN audio_buffer' = {}
         /\ marks' = << >>
         /\ last_msg' = last_msg
      ]_vars

\* C20: handling the start event gives exactly one chunk to the synthesis
\* service, the priming chunk with partial_response_index None, and uses no
\* sequence number: partial_response_index and expected_audio_index are 0
\* before and after it.
C20_PrimingChunk ==
    [][IsMessage("start") =>
        /\ Len(synth') = Len(synth) + 1
        /\ LastSynth.index = None
        /\ \A i \in 1..Len(synth) : synth[i].index # None
        /\ partial_response_index = 0 /\ partial_response_index' = 0
        /\ expected_audio_index = 0 /\ expected_audio_index' = 0
      ]_vars

\* the sequence numbers send_audio was called for, in order (the audio of
\* the n-th buffer() call is n)
Released == [i \in 1..Len(coroutines) |-> calls[coroutines[i]].index]

\* C11: buffer() calls made from several threads at once, each sequence
\* number submitted once, run as one critical section each: whatever the
\* interleaving, the chunks are released in the order 0, 1, 2, ..., none
\* twice, none skipped, none out of order.
C11_SerializedSubmits ==
    \A i \in 1..Len(coroutines) : Released[i] = i - 1

\* the step handles a message that is not JSON, has no or an unknown event,
\* or lacks a field its event needs
IsMalformed ==
    /\ last_msg' # last_msg
    /\ last_msg'.kind \in IgnoredKinds \cup {"start-no-callSid", "start-no-sids"}

\* C21: a message that is not valid JSON, has an unknown event or lacks a
\* field its event needs is ignored: the connection stays in the registry,
\* the read loop goes on, and the identifiers, the marks, the interaction
\* counter, the sequenced buffer and the context are unchanged.
C21_MalformedIgnored ==
    [][IsMalformed =>
        /\ registered' /\ ~ended'
        /\ UNCHANGED <<conn_stream_sid, bufvars, marks, interaction_count,
                       user_context, partial_response_index, synth>>
      ]_vars

\* the completion() calls that have finished with number below c
DoneBefore(fin, c) ==
    Cardinality({n \in 1..Len(fin) : fin[n].outcome = "done" /\ fin[n].call < c})

\* C22: conn['interaction_count'] never decreases; it grows by one in the
\* step in which a transcript's completion finishes and in no other; an
\* empty transcript leaves it alone; every chunk dispatched carries the value
\* the counter had when its completion() call started, the number of
\* completions finished before it.
C22_CounterPerFinishedTurn ==
    [][/\ interaction_count' =
             interaction_count +
               (IF /\ Len(finished') > Len(finished)
                   /\ finished'[Len(finished')].outcome = "done"
                  THEN 1 ELSE 0)
       /\ (ntrans' # ntrans /\ active' = active) =>
             interaction_count' = interaction_count
       /\ \A i \in 1..Len(dispatched') :
             dispatched'[i].icount = DoneBefore(finished', dispatched'[i].call)
       /\ \A j \in 1..Len(synth') :
             synth'[j].index # None =>
                \E i \in 1..Len(dispatched') :
                    /\ dispatched'[i].index = synth'[j].index
                    /\ dispatched'[i].icount = synth'[j].icount
      ]_vars

\* two completions have finished, the second after dispatching a chunk
\* tagged 1
C22_Witness ==
    /\ interaction_count = 2
    /\ \E i, j \in 1..Len(dispatched) :
          /\ dispatched[i].call = 1 /\ dispatched[i].icount = 0
          /\ dispatched[j].call = 2 /\ dispatched[j].icount = 1

\* C23: a synthesis result that reaches handle_speech after the connection
\* has left the registry is dropped without error: nothing is written to the
\* outbound sink, no exception is raised out of the listener, and the
\* registry is left as it is.
C23_LateResultDropped ==
    [][~registered /\ IsCall =>
        /\ ws_out' = ws_out
        /\ unhandled' = unhandled
        /\ registered' = registered
      ]_vars

\* s is an initial part of t
IsPrefix(s, t) == Len(s) <= Len(t) /\ SubSeq(t, 1, Len(s)) = s

\* C24: the conversation context only grows at its end: in every step the
\* context before is an initial part of the context after, so no turn is
\* removed, rewritten or moved.
C24_ContextAppendOnly ==
    [][IsPrefix(user_context, user_context')]_vars

\* the callSid line, a user turn and the assistant turn of a finished
\* completion have been appended to the initial context
C24_Witness ==
    /\ IsPrefix(InitialContext, user_context)
    /\ \E i, j, k \in 1..Len(user_context) :
          /\ Len(InitialContext) < i /\ i < j /\ j < k
          /\ user_context[i] = Turn("system", 0, 1)
          /\ user_context[j].role = "user"
          /\ user_context[k].role = "assistant" /\ user_context[k].call = user_context[j].call

\* completion() has dispatched chunk k with a text that is not empty
DispatchedNonEmpty(k) ==
    \E i \in 1..Len(dispatched) : dispatched[i].index = k /\ dispatched[i].text # 0

\* the audio of chunk k is on the outbound sink
Emitted(k) ==
    \E p \in 1..Len(calls) :
        calls[p].index = k /\ calls[p].audio \in Range(Payloads(ws_out))

\* send_audio has been called for chunk k
ReleasedChunk(k) ==
    \E p \in 1..Len(calls) :
        calls[p].index = k /\ calls[p].audio \in Range(coroutines)

\* a synthesis call has failed
SynthFailed == \E j \in 1..Len(synth) : synth[j].status = "failed"

\* C25: with the stream identifier bound and no synthesis call failing, every
\* chunk with a text that is not empty that completion() dispatches, in the
\* first turn or a later one, is eventually written to the outbound sink.
C25_NoStallWithoutFailure ==
    \A k \in 0..(MaxChunks - 1) :
        DispatchedNonEmpty(k) ~> (Emitted(k) \/ SynthFailed)

\* C26: expected_audio_index advances only for audio that was sent: a step
\* that raises it by n writes exactly n media frames to the outbound sink, so
\* a chunk whose send_audio returns early or fails is not counted as
\* released.
C26_AdvanceOnlyWhenSent ==
    [][expected_audio_index' # expected_audio_index =>
         Len(Medias(ws_out')) - Len(Medias(ws_out)) =
            expected_audio_index' - expected_audio_index
      ]_vars

\* C27: over the whole session, also while two completion() calls overlap,
\* the chunks dispatched carry the numbers 0, 1, 2, ... in the order of
\* dispatch: no number twice, none left out.
C27_DistinctGapFree ==
    \A i \in 1..Len(dispatched) : dispatched[i].index = i - 1

\* C28: in the conversation context every assistant turn a completion() call
\* appended stands directly after the user turn the same call appended, also
\* when two calls overlap: the turns never come out as user, user,
\* assistant, assistant.
C28_AssistantFollowsOwnUser ==
    \A i \in 1..Len(user_context) :
        user_context[i].role = "assistant" /\ user_context[i].call # 0 =>
            /\ i > 1
            /\ user_context[i - 1].role = "user"
            /\ user_context[i - 1].call = user_context[i].call

\* the 'transcription' events that carry the finalized piece p
EventsWith(p) ==
    {i \in 1..Len(transcriptions) : p \in Range(transcriptions[i])}

\* C29: every finalized piece is delivered in exactly one 'transcription'
\* event: a piece emitted on an UtteranceEnd is not emitted again with a
\* later event, and a piece not yet emitted is still held in final_result.
C29_PieceDeliveredOnce ==
    \A p \in 1..npieces :
        /\ Cardinality(EventsWith(p)) <= 1
        /\ EventsWith(p) = {} => p \in Range(final_result)

\* C30: the registry never keeps an entry for a connection whose read loop
\* has ended, whichever way the loop ended.
C30_EndedNotRegistered == ended => ~registered
====
